---- MODULE Spec2Model ----
(***************************************************************************)
(* Model of foonathan::memory::detail::small_free_memory_list              *)
(* (src/src/detail/small_free_list.cpp) together with the helpers of       *)
(* detail/align.hpp.  Addresses are integers, nullptr is 0.  A chunk       *)
(* header lives at its address in `chunks`; `mem` holds the first byte of  *)
(* every node slot, which is where the intrusive free chain is stored.     *)
(* The build modelled has FOONATHAN_MEMORY_ASSERT and the debug_check_*    *)
(* hooks enabled: a failed assertion or check aborts, recorded in          *)
(* `report`, after which nothing more happens.                             *)
(***************************************************************************)
EXTENDS Integers, FiniteSets, Sequences, TLC

VARIABLES
    debug_fence_size,   \* build configuration: 0 (no fences) or a fence size
    list,               \* the small_free_memory_list object
    chunks,             \* chunk address -> chunk header
    mem,                \* byte address -> byte (first byte of each slot)
    brk,                \* caller: where the next donated block starts
    inserts,            \* caller: number of insert calls made
    outstanding,        \* caller: pointers returned and not yet deallocated
    freed,              \* caller: pointers returned earlier, deallocated since
    last,               \* the last call made and what it returned
    report,             \* "none", or the assertion / debug report that aborted
    other,              \* a second small_free_memory_list object
    other_outstanding,  \* caller: pointers to give back through other
    other_freed,        \* caller: pointers given back, now owned by other
    moves,              \* caller: number of moves and swaps made
    is_stateful,        \* allocator_traits<RawAllocator>::is_stateful
    mutex_,             \* mutex_storage: the thread holding it, 0 if free
    pc,                 \* thread -> the adapter call it is in, and where
    proxies,            \* thread -> the locked_allocator objects it has
    heap,               \* operator new: live block address -> its size
    nodes               \* caller of new_allocator: node -> size it asked for

\* the two list objects and what their caller keeps
second_vars == <<other, other_outstanding, other_freed, moves>>

\* thread_safe_allocator and the threads calling it
thread_vars == <<is_stateful, mutex_, pc, proxies>>

\* the global heap and the nodes new_allocator has handed out
heap_vars == <<heap, nodes>>

vars == <<debug_fence_size, list, chunks, mem, brk, inserts, outstanding,
          freed, last, report, second_vars, thread_vars, heap_vars>>

(***************************************************************************)
(* Bounds of the model.                                                    *)
(***************************************************************************)
MaxInserts == 2        \* insert calls in Spec
MaxOutstanding == 3    \* nodes the caller holds at a time
MaxTailNodes == 2      \* whole slots in the tail of a donated block
MaxBlockInserts == 1   \* insert calls in SpecBlocks
MaxFullChunks == 1     \* chunk units in a block donated in SpecBlocks
MaxThreads == 2        \* threads sharing a thread_safe_allocator
MaxMoveInserts == 2    \* insert calls in SpecMove
MaxMoves == 2          \* moves and swaps in SpecMove
MaxChunkInserts == 3   \* insert calls in SpecChunks
MaxProxies == 2        \* locked_allocator objects a thread has at a time
MaxNodes == 2          \* nodes of new_allocator the caller holds at a time
HeapSlots == 4         \* places where operator new puts a block
size_t_bits == 8       \* width of std::size_t and of an address, scaled down

(***************************************************************************)
(* Program constants (LP64 platform).                                      *)
(***************************************************************************)
NULL == 0
sizeof_chunk == 24
max_alignment == 16
chunk_max_nodes == 255
FenceSizes == {0, 8}
NodeSizes == {1, 8}

(***************************************************************************)
(* detail/align.hpp                                                        *)
(***************************************************************************)
is_aligned(ptr, alignment) == ptr % alignment = 0

alignment_for(size) == IF size < max_alignment THEN size ELSE max_alignment

(***************************************************************************)
(* anonymous namespace of small_free_list.cpp                              *)
(***************************************************************************)
alignment_div == sizeof_chunk \div max_alignment
alignment_mod == sizeof_chunk % max_alignment

chunk_memory_offset ==
    IF alignment_mod = 0 THEN sizeof_chunk
    ELSE (alignment_div + 1) * max_alignment

list_memory(c) == c + chunk_memory_offset

\* the chunk header that placement new and the three assignments produce
new_chunk(c, no_nodes) ==
    [next |-> c, prev |-> c, first_node |-> 0,
     capacity |-> no_nodes, no_nodes |-> no_nodes]

\* creates a chunk at address c; slot i gets i + 1 in its first byte
create_chunk(ch, m, c, node_size, no_nodes) ==
    LET slots == {list_memory(c) + i * node_size : i \in 0..(no_nodes - 1)}
    IN [chunks |-> (c :> new_chunk(c, no_nodes)) @@ ch,
        mem    |-> [a \in slots |-> ((a - list_memory(c)) \div node_size) + 1]
                   @@ m]

from_chunk(ch, c, node_size, p) ==
    /\ list_memory(c) <= p
    /\ p < list_memory(c) + node_size * ch[c].no_nodes

\* the while loop of chunk_contains from the state s = [cur_index, found],
\* for at most fuel iterations; the iterations are run in two halves so that
\* a long chain is followed without deep nesting
RECURSIVE contains_loop(_, _, _, _, _, _, _)
contains_loop(ch, m, c, node_size, pointer, s, fuel) ==
    LET cur_mem == list_memory(c) + s.cur_index * node_size
        half == fuel \div 2
        mid == contains_loop(ch, m, c, node_size, pointer, s, half)
    IN IF s.found \/ s.cur_index = ch[c].no_nodes \/ fuel = 0 THEN s
       ELSE IF fuel = 1
       THEN IF cur_mem = pointer
            THEN [s EXCEPT !.found = TRUE]
            ELSE [s EXCEPT !.cur_index = m[cur_mem]]
       ELSE IF mid.found \/ mid.cur_index = ch[c].no_nodes THEN mid
       ELSE contains_loop(ch, m, c, node_size, pointer, mid, fuel - half)

\* chunk_contains with the walk started at the second node of the chain
chunk_contains_skips_head(ch, m, c, node_size, pointer) ==
    LET second == IF ch[c].first_node = ch[c].no_nodes THEN ch[c].no_nodes
                  ELSE m[list_memory(c) + ch[c].first_node * node_size]
    IN contains_loop(ch, m, c, node_size, pointer,
                     [cur_index |-> second, found |-> FALSE],
                     chunk_max_nodes + 1).found

\* whether or not a pointer is in the free chain of chunk c
chunk_contains(ch, m, c, node_size, pointer) ==
    contains_loop(ch, m, c, node_size, pointer,
                  [cur_index |-> ch[c].first_node, found |-> FALSE],
                  chunk_max_nodes + 1).found

(***************************************************************************)
(* chunk_list: first_ is the only member; the links are in the chunks.     *)
(***************************************************************************)
\* chunk_list::insert(chunk*): insert at the front
chunk_list_insert(ch, first_, c) ==
    IF first_ = NULL
    THEN [chunks |-> [ch EXCEPT ![c].next = c, ![c].prev = c],
          first_ |-> c]
    ELSE LET ch1 == [ch EXCEPT ![c].next = first_]
             ch2 == [ch1 EXCEPT ![c].prev = ch1[first_].prev]
             ch3 == [ch2 EXCEPT ![first_].prev = c]
         IN [chunks |-> ch3, first_ |-> c]

\* chunk_list::insert(chunk_list&): the head c of other is taken out of
\* other (lines 132-140)
chunk_list_detach(ch, c) ==
    IF c = ch[c].next
    THEN [chunks |-> ch, other_first_ |-> NULL]
    ELSE LET ch1 == [ch EXCEPT ![ch[c].prev].next = ch[c].next]
             ch2 == [ch1 EXCEPT ![ch1[c].next].prev = ch1[c].prev]
         IN [chunks |-> ch2, other_first_ |-> ch2[c].next]

\* what chunk_list::insert(chunk_list&) leaves: this list, other and the
\* chunk moved
splice_result(ins, other_first_, c) ==
    [chunks |-> ins.chunks, first_ |-> ins.first_,
     other_first_ |-> other_first_, c |-> c]

\* chunk_list_splice without the final insert(c)
chunk_list_splice_drops(ch, first_, other_first_) ==
    splice_result([chunks |-> chunk_list_detach(ch, other_first_).chunks,
                   first_ |-> first_],
                  chunk_list_detach(ch, other_first_).other_first_,
                  other_first_)

\* chunk_list::insert(chunk_list&): move the head of other to the front
\* of this list; other is not empty
chunk_list_splice(ch, first_, other_first_) ==
    splice_result(chunk_list_insert(
                      chunk_list_detach(ch, other_first_).chunks,
                      first_, other_first_),
                  chunk_list_detach(ch, other_first_).other_first_,
                  other_first_)

(***************************************************************************)
(* Debug helpers (detail/debug_helpers.hpp): with fences the user pointer  *)
(* is the slot address plus the leading fence, without them the slot       *)
(* address itself.                                                         *)
(***************************************************************************)
debug_fill_new(memory, node_size, fence_size) ==
    IF debug_fence_size # 0 THEN memory + fence_size ELSE memory

debug_fill_free(memory, node_size, fence_size) ==
    IF debug_fence_size # 0 THEN memory - fence_size ELSE memory

(***************************************************************************)
(* small_free_memory_list                                                  *)
(***************************************************************************)
\* small_free_memory_list(node_size)
new_list(node_size) ==
    [unused_chunks_ |-> NULL, used_chunks_ |-> NULL,
     alloc_chunk_ |-> NULL, dealloc_chunk_ |-> NULL,
     node_size_ |-> node_size, capacity_ |-> 0]

node_size(l) == l.node_size_

alignment(l) == alignment_for(l.node_size_)

node_fence_size(l) ==
    l.node_size_ + (IF debug_fence_size # 0 THEN 2 * alignment(l) ELSE 0)

\* the for loop of insert: todo more full chunks from address at on, each
\* put at the front of the unused list
RECURSIVE insert_full_chunks(_, _, _, _, _, _, _)
insert_full_chunks(ch, m, first_, at, todo, slot, unit) ==
    IF todo = 0 THEN [chunks |-> ch, mem |-> m, first_ |-> first_]
    ELSE LET made == create_chunk(ch, m, at, slot, chunk_max_nodes)
             ins  == chunk_list_insert(made.chunks, first_, at)
         IN insert_full_chunks(ins.chunks, made.mem, ins.first_,
                               at + unit, todo - 1, slot, unit)

\* remaining as computed by insert
insert_remaining(size, chunk_unit) ==
    IF (size % chunk_unit) > chunk_memory_offset
    THEN (size % chunk_unit) - chunk_memory_offset
    ELSE 0

\* whether insert lays out a partial chunk in the tail
insert_makes_tail(remaining, slot) == remaining > slot

\* insert: the partial chunk of the tail, after the full chunks
insert_tail(full, tail_at, remaining, slot) ==
    IF insert_makes_tail(remaining, slot)
    THEN LET made == create_chunk(full.chunks, full.mem, tail_at, slot,
                                  remaining \div slot)
             ins == chunk_list_insert(made.chunks, full.first_, tail_at)
         IN [chunks |-> ins.chunks, mem |-> made.mem, first_ |-> ins.first_]
    ELSE full

\* insert: the count of the nodes, its assertion and capacity_, laid being
\* the chunks laid out (lines 208-210)
insert_count(l, laid, inserted_memory) ==
    IF ~(inserted_memory > 0)
    THEN [list |-> [l EXCEPT !.unused_chunks_ = laid.first_],
          chunks |-> laid.chunks, mem |-> laid.mem, report |-> "assertion"]
    ELSE [list |-> [l EXCEPT !.unused_chunks_ = laid.first_,
                             !.capacity_ = @ + inserted_memory],
          chunks |-> laid.chunks, mem |-> laid.mem, report |-> "none"]

\* small_free_memory_list::insert(memory, size)
insert(l, ch, m, memory, size) ==
    LET slot       == node_fence_size(l)
        unit       == chunk_memory_offset + slot * chunk_max_nodes
        no_chunks  == size \div unit
        remaining  == insert_remaining(size, unit)
    IN IF ~is_aligned(memory, max_alignment)
       THEN [list |-> l, chunks |-> ch, mem |-> m, report |-> "assertion"]
       ELSE insert_count(
                l,
                insert_tail(insert_full_chunks(ch, m, l.unused_chunks_,
                                               memory, no_chunks, slot, unit),
                            memory + no_chunks * unit, remaining, slot),
                no_chunks * chunk_max_nodes + (remaining \div slot))

\* chunk_list(chunk_list &&other): what the new list and other hold
chunk_list_move(other_first_) == [first_ |-> other_first_, other |-> NULL]

\* list_move without the reset of the caches and the capacity of other
list_move_keeps_source(o) ==
    [target |-> o,
     source |-> [o EXCEPT !.unused_chunks_ = NULL, !.used_chunks_ = NULL]]

\* small_free_memory_list(small_free_memory_list &&other): the object
\* constructed and what is left of other
list_move(o) ==
    [target |-> [unused_chunks_ |-> chunk_list_move(o.unused_chunks_).first_,
                 used_chunks_   |-> chunk_list_move(o.used_chunks_).first_,
                 alloc_chunk_   |-> o.alloc_chunk_,
                 dealloc_chunk_ |-> o.dealloc_chunk_,
                 node_size_     |-> o.node_size_,
                 capacity_      |-> o.capacity_],
     source |-> [unused_chunks_ |-> chunk_list_move(o.unused_chunks_).other,
                 used_chunks_   |-> chunk_list_move(o.used_chunks_).other,
                 alloc_chunk_   |-> NULL,
                 dealloc_chunk_ |-> NULL,
                 node_size_     |-> o.node_size_,
                 capacity_      |-> 0]]

\* list_swap with the two cache pointers left where they were
list_swap_keeps_caches(a, b) ==
    [a |-> [b EXCEPT !.alloc_chunk_ = a.alloc_chunk_,
                     !.dealloc_chunk_ = a.dealloc_chunk_],
     b |-> [a EXCEPT !.alloc_chunk_ = b.alloc_chunk_,
                     !.dealloc_chunk_ = b.dealloc_chunk_]]

\* swap(small_free_memory_list &a, small_free_memory_list &b): member by
\* member
list_swap(a, b) ==
    [a |-> [unused_chunks_ |-> b.unused_chunks_,
            used_chunks_   |-> b.used_chunks_,
            alloc_chunk_   |-> b.alloc_chunk_,
            dealloc_chunk_ |-> b.dealloc_chunk_,
            node_size_     |-> b.node_size_,
            capacity_      |-> b.capacity_],
     b |-> [unused_chunks_ |-> a.unused_chunks_,
            used_chunks_   |-> a.used_chunks_,
            alloc_chunk_   |-> a.alloc_chunk_,
            dealloc_chunk_ |-> a.dealloc_chunk_,
            node_size_     |-> a.node_size_,
            capacity_      |-> a.capacity_]]

\* operator=(small_free_memory_list &&other): tmp is constructed from
\* other and swapped with *this; tmp then goes out of scope
list_move_assign(this, o) ==
    [this   |-> list_swap(this, list_move(o).target).a,
     source |-> list_move(o).source]

\* the walk with the backward walker left where it is
RECURSIVE walk_forward_only(_, _, _, _, _, _)
walk_forward_only(ch, hits, forward_iter, backward_iter, seen, fuel) ==
    LET f == ch[forward_iter].next
        b == backward_iter
    IN IF f \in hits
       THEN [result |-> f, ended |-> TRUE, seen |-> seen \cup {f}]
       ELSE IF f = b
       THEN [result |-> NULL, ended |-> TRUE, seen |-> seen \cup {f}]
       ELSE IF fuel = 0
       THEN [result |-> NULL, ended |-> FALSE, seen |-> seen \cup {f}]
       ELSE walk_forward_only(ch, hits, f, b, seen \cup {f}, fuel - 1)

\* the do-while loop shared by find_chunk and chunk_for; hits are the chunks
\* that pass the test made on each walker and seen those tested so far.
\* result is the chunk found, NULL when the walkers met without a hit;
\* ended is FALSE when the loop is still running after fuel iterations.
RECURSIVE bidirectional_walk(_, _, _, _, _, _)
bidirectional_walk(ch, hits, forward_iter, backward_iter, seen, fuel) ==
    LET f == ch[forward_iter].next
        b == ch[backward_iter].prev
    IN IF f \in hits
       THEN [result |-> f, ended |-> TRUE, seen |-> seen \cup {f}]
       ELSE IF b \in hits
       THEN [result |-> b, ended |-> TRUE, seen |-> seen \cup {f, b}]
       ELSE IF f = b
       THEN [result |-> NULL, ended |-> TRUE, seen |-> seen \cup {f, b}]
       ELSE IF fuel = 0
       THEN [result |-> NULL, ended |-> FALSE, seen |-> seen \cup {f, b}]
       ELSE bidirectional_walk(ch, hits, f, b, seen \cup {f, b}, fuel - 1)

WalkFuel(ch) == 2 * Cardinality(DOMAIN ch) + 2

\* find_chunk: an unused chunk, moved to the used list as sp tells, becomes
\* alloc_chunk_, and dealloc_chunk_ if that was null (lines 276-279)
find_chunk_unused(l, sp) ==
    [list |-> [l EXCEPT !.used_chunks_ = sp.first_,
                        !.unused_chunks_ = sp.other_first_,
                        !.alloc_chunk_ = sp.c,
                        !.dealloc_chunk_ = IF @ = NULL THEN sp.c ELSE @],
     chunks |-> sp.chunks, report |-> "none", result |-> TRUE]

\* find_chunk: the outcome w of the walk over the used chunks
find_chunk_walked(l, ch, w) ==
    IF ~w.ended
    THEN [list |-> l, chunks |-> ch, report |-> "hang", result |-> FALSE]
    ELSE IF w.result = NULL
    THEN [list |-> l, chunks |-> ch, report |-> "none", result |-> FALSE]
    ELSE [list |-> [l EXCEPT !.alloc_chunk_ = w.result], chunks |-> ch,
          report |-> "none", result |-> TRUE]

\* find_chunk that looks at dealloc_chunk_ before the unused list
find_chunk_used_first(l, ch, n) ==
    IF ~(l.capacity_ >= n /\ n <= chunk_max_nodes)
    THEN [list |-> l, chunks |-> ch, report |-> "assertion", result |-> FALSE]
    ELSE IF l.alloc_chunk_ # NULL /\ ch[l.alloc_chunk_].capacity >= n
    THEN [list |-> l, chunks |-> ch, report |-> "none", result |-> TRUE]
    ELSE IF l.dealloc_chunk_ # NULL /\ ch[l.dealloc_chunk_].capacity >= n
    THEN [list |-> [l EXCEPT !.alloc_chunk_ = l.dealloc_chunk_],
          chunks |-> ch, report |-> "none", result |-> TRUE]
    ELSE IF l.unused_chunks_ # NULL
    THEN find_chunk_unused(
             l, chunk_list_splice(ch, l.used_chunks_, l.unused_chunks_))
    ELSE IF l.dealloc_chunk_ = NULL
    THEN [list |-> l, chunks |-> ch, report |-> "assertion", result |-> FALSE]
    ELSE find_chunk_walked(
             l, ch,
             bidirectional_walk(ch, {c \in DOMAIN ch : ch[c].capacity >= n},
                                l.dealloc_chunk_, l.dealloc_chunk_, {},
                                WalkFuel(ch)))

\* small_free_memory_list::find_chunk(n)
find_chunk(l, ch, n) ==
    IF ~(l.capacity_ >= n /\ n <= chunk_max_nodes)
    THEN [list |-> l, chunks |-> ch, report |-> "assertion", result |-> FALSE]
    ELSE IF l.alloc_chunk_ # NULL /\ ch[l.alloc_chunk_].capacity >= n
    THEN [list |-> l, chunks |-> ch, report |-> "none", result |-> TRUE]
    ELSE IF l.unused_chunks_ # NULL
    THEN find_chunk_unused(
             l, chunk_list_splice(ch, l.used_chunks_, l.unused_chunks_))
    ELSE IF l.dealloc_chunk_ = NULL
    THEN [list |-> l, chunks |-> ch, report |-> "assertion", result |-> FALSE]
    ELSE IF ch[l.dealloc_chunk_].capacity >= n
    THEN [list |-> [l EXCEPT !.alloc_chunk_ = l.dealloc_chunk_],
          chunks |-> ch, report |-> "none", result |-> TRUE]
    ELSE find_chunk_walked(
             l, ch,
             bidirectional_walk(ch, {c \in DOMAIN ch : ch[c].capacity >= n},
                                l.dealloc_chunk_, l.dealloc_chunk_, {},
                                WalkFuel(ch)))

\* allocate(): the slot at the head of the free chain of chunk c
head_node_memory(l, ch, c) ==
    list_memory(c) + ch[c].first_node * node_fence_size(l)

\* take_node without the move to the next link
take_node_keeps_head(ch, m, c, node_memory) ==
    [ch EXCEPT ![c].capacity = @ - 1]

\* allocate(): the chain of chunk c moves on to the link stored in the slot
take_node(ch, m, c, node_memory) ==
    [ch EXCEPT ![c].first_node = m[node_memory], ![c].capacity = @ - 1]

\* allocate() once alloc_chunk_ has been looked for, found being what
\* find_chunk left (lines 217-224)
allocate_node(found, m) ==
    IF found.report # "none"
    THEN [list |-> found.list, chunks |-> found.chunks, mem |-> m,
          report |-> found.report, ret |-> NULL]
    ELSE IF ~(/\ found.list.alloc_chunk_ # NULL
              /\ found.chunks[found.list.alloc_chunk_].capacity # 0)
    THEN [list |-> found.list, chunks |-> found.chunks, mem |-> m,
          report |-> "assertion", ret |-> NULL]
    ELSE [list |-> [found.list EXCEPT !.capacity_ = @ - 1],
          chunks |-> take_node(found.chunks, m, found.list.alloc_chunk_,
                               head_node_memory(found.list, found.chunks,
                                                found.list.alloc_chunk_)),
          mem |-> m,
          report |-> "none",
          ret |-> debug_fill_new(
                      head_node_memory(found.list, found.chunks,
                                       found.list.alloc_chunk_),
                      node_size(found.list), alignment(found.list))]

\* allocate that returns null from a list without capacity
allocate_or_null(l, ch, m) ==
    IF l.capacity_ = 0
    THEN [list |-> l, chunks |-> ch, mem |-> m, report |-> "none",
          ret |-> NULL]
    ELSE allocate_node(IF l.alloc_chunk_ = NULL
                          \/ ch[l.alloc_chunk_].capacity = 0
                       THEN find_chunk(l, ch, 1)
                       ELSE [list |-> l, chunks |-> ch, report |-> "none",
                             result |-> TRUE],
                       m)

\* small_free_memory_list::allocate()
allocate(l, ch, m) ==
    allocate_node(IF l.alloc_chunk_ = NULL \/ ch[l.alloc_chunk_].capacity = 0
                  THEN find_chunk(l, ch, 1)
                  ELSE [list |-> l, chunks |-> ch, report |-> "none",
                        result |-> TRUE],
                  m)

\* chunk_for: the outcome w of the walk over the used chunks
chunk_for_walked(l, w) ==
    IF ~w.ended
    THEN [list |-> l, report |-> "hang", result |-> NULL]
    ELSE IF w.result = NULL
    THEN [list |-> l, report |-> "none", result |-> NULL]
    ELSE [list |-> [l EXCEPT !.dealloc_chunk_ = w.result],
          report |-> "none", result |-> w.result]

\* small_free_memory_list::chunk_for(memory)
chunk_for(l, ch, memory) ==
    IF ~(l.dealloc_chunk_ # NULL /\ l.alloc_chunk_ # NULL)
    THEN [list |-> l, report |-> "assertion", result |-> NULL]
    ELSE IF from_chunk(ch, l.dealloc_chunk_, node_fence_size(l), memory)
    THEN [list |-> l, report |-> "none", result |-> l.dealloc_chunk_]
    ELSE IF from_chunk(ch, l.alloc_chunk_, node_fence_size(l), memory)
    THEN [list |-> [l EXCEPT !.dealloc_chunk_ = l.alloc_chunk_],
          report |-> "none", result |-> l.alloc_chunk_]
    ELSE chunk_for_walked(
             l,
             bidirectional_walk(
                 ch,
                 {c \in DOMAIN ch :
                     from_chunk(ch, c, node_fence_size(l), memory)},
                 l.dealloc_chunk_, l.dealloc_chunk_, {}, WalkFuel(ch)))

\* put_node_link without the write of the old head into the slot
put_node_link_skipped(ch, m, c, node_memory) == m

\* deallocate(): the slot becomes the head of the free chain of chunk c
put_node_link(ch, m, c, node_memory) ==
    [m EXCEPT ![node_memory] = ch[c].first_node]

\* put_node that makes the slot the head of an empty chain only
put_node_behind_head(ch, c, index) ==
    IF ch[c].first_node = ch[c].no_nodes
    THEN [ch EXCEPT ![c].first_node = index, ![c].capacity = @ + 1]
    ELSE [ch EXCEPT ![c].capacity = @ + 1]

\* put_node without the increment of the chunk's capacity
put_node_keeps_capacity(ch, c, index) ==
    [ch EXCEPT ![c].first_node = index]

put_node(ch, c, index) ==
    [ch EXCEPT ![c].first_node = index, ![c].capacity = @ + 1]

\* deallocate() once the chunk has been looked for, cf being what chunk_for
\* left and slot the slot size (lines 232-256)
deallocate_node(cf, ch, m, slot, node_memory) ==
    IF cf.report # "none"
    THEN [list |-> cf.list, chunks |-> ch, mem |-> m, report |-> cf.report]
    ELSE IF cf.result = NULL
    THEN [list |-> cf.list, chunks |-> ch, mem |-> m,
          report |-> "invalid_pointer"]
    ELSE IF (node_memory - list_memory(cf.result)) % slot # 0
    THEN [list |-> cf.list, chunks |-> ch, mem |-> m,
          report |-> "invalid_pointer"]
    ELSE IF chunk_contains(ch, m, cf.result, slot, node_memory)
    THEN [list |-> cf.list, chunks |-> ch, mem |-> m,
          report |-> "double_free"]
    ELSE [list |-> [cf.list EXCEPT !.capacity_ = @ + 1],
          chunks |-> put_node(ch, cf.result,
                              (node_memory - list_memory(cf.result))
                                  \div slot),
          mem |-> put_node_link(ch, m, cf.result, node_memory),
          report |-> "none"]

\* small_free_memory_list::deallocate(memory)
deallocate(l, ch, m, memory) ==
    deallocate_node(
        chunk_for(l, ch, debug_fill_free(memory, node_size(l), alignment(l))),
        ch, m, node_fence_size(l),
        debug_fill_free(memory, node_size(l), alignment(l)))

(***************************************************************************)
(* The caller: one list, blocks donated one after the other, nodes         *)
(* allocated and given back in any order, and the misuses the debug        *)
(* checks are there for.                                                   *)
(***************************************************************************)
BaseAddress == 64 * max_alignment

chunk_unit(l) == chunk_memory_offset + node_fence_size(l) * chunk_max_nodes

\* block sizes below one chunk unit: no room for a slot, room for exactly
\* one slot, one slot and a byte, and k whole slots
TailSizes(slot) ==
    {chunk_memory_offset, chunk_memory_offset + slot + 1}
    \cup {chunk_memory_offset + k * slot : k \in 1..MaxTailNodes}

InsertSizes(l) == TailSizes(node_fence_size(l))

\* block sizes of up to MaxFullChunks chunk units and a tail
BlockSizes(l) ==
    {n * chunk_unit(l) + r :
        n \in 0..MaxFullChunks, r \in {0} \cup TailSizes(node_fence_size(l))}

AlignUp(a) == ((a + max_alignment - 1) \div max_alignment) * max_alignment

\* the threads that share one thread_safe_allocator
Threads == 1..MaxThreads

\* nothing donated, nothing allocated
InitCaller ==
    /\ chunks = <<>>
    /\ mem = <<>>
    /\ brk = BaseAddress
    /\ inserts = 0
    /\ outstanding = {}
    /\ freed = {}
    /\ last = [op |-> "construct", arg |-> 0, ret |-> NULL]
    /\ report = "none"
    /\ other_outstanding = {}
    /\ other_freed = {}
    /\ moves = 0
    /\ heap = <<>>
    /\ nodes = <<>>

\* the adapter as constructed, no thread in a call
InitAdapter ==
    /\ mutex_ = 0
    /\ pc = [t \in Threads |-> [fn |-> "none", at |-> "idle"]]
    /\ proxies = [t \in Threads |-> <<>>]

Init ==
    /\ debug_fence_size \in FenceSizes
    /\ \E ns \in NodeSizes : list = new_list(ns)
    /\ other = new_list(node_size(list))
    /\ InitCaller
    /\ is_stateful = TRUE
    /\ InitAdapter

\* the caller's view after a call: r is what the call left
CallReturns(r) ==
    /\ list' = r.list
    /\ chunks' = r.chunks
    /\ mem' = r.mem
    /\ report' = r.report

InsertCall(memory, size) ==
    /\ report = "none"
    /\ CallReturns(insert(list, chunks, mem, memory, size))
    /\ brk' = AlignUp(brk + size)
    /\ inserts' = inserts + 1
    /\ last' = [op |-> "insert", arg |-> size, ret |-> memory]
    /\ UNCHANGED <<debug_fence_size, outstanding, freed>>
    /\ UNCHANGED <<second_vars, thread_vars, heap_vars>>

Insert ==
    /\ inserts < MaxInserts
    /\ \E size \in InsertSizes(list) : InsertCall(brk, size)

InsertUnaligned ==
    /\ inserts < MaxInserts
    /\ InsertCall(brk + 1, chunk_memory_offset + 2 * node_fence_size(list))

InsertBlock ==
    /\ inserts < MaxBlockInserts
    /\ \E size \in BlockSizes(list) : InsertCall(brk, size)

AllocateReturns(r) ==
    /\ CallReturns(r)
    /\ last' = [op |-> "allocate", arg |-> 0, ret |-> r.ret]
    /\ outstanding' = IF r.report = "none"
                      THEN outstanding \cup {r.ret} ELSE outstanding
    /\ freed' = IF r.report = "none" THEN freed \ {r.ret} ELSE freed

Allocate ==
    /\ report = "none"
    /\ Cardinality(outstanding) < MaxOutstanding
    /\ AllocateReturns(allocate(list, chunks, mem))
    /\ UNCHANGED <<debug_fence_size, brk, inserts>>
    /\ UNCHANGED <<second_vars, thread_vars, heap_vars>>

DeallocateReturns(r, p) ==
    /\ CallReturns(r)
    /\ outstanding' = IF r.report = "none"
                      THEN outstanding \ {p} ELSE outstanding
    /\ freed' = IF r.report = "none" /\ p \in outstanding
                THEN freed \cup {p} ELSE freed

DeallocateCall(p) ==
    /\ report = "none"
    /\ DeallocateReturns(deallocate(list, chunks, mem, p), p)
    /\ last' = [op |-> "deallocate", arg |-> p, ret |-> NULL]
    /\ UNCHANGED <<debug_fence_size, brk, inserts>>
    /\ UNCHANGED <<second_vars, thread_vars, heap_vars>>

\* a node that is outstanding goes back
Deallocate == \E p \in outstanding : DeallocateCall(p)

\* a node that was given back already is given back again
DeallocateAgain == \E p \in freed : DeallocateCall(p)

\* a pointer into the middle of an outstanding node, or one that no
\* allocate() of this list returned
ForeignPointers ==
    {brk} \cup (IF list.unused_chunks_ = NULL THEN {}
                ELSE {debug_fill_new(list_memory(list.unused_chunks_),
                                     node_size(list), alignment(list))})

DeallocateInvalid ==
    \E p \in {q + 1 : q \in outstanding} \cup ForeignPointers :
        DeallocateCall(p)

Next ==
    \/ Insert
    \/ InsertUnaligned
    \/ Allocate
    \/ Deallocate
    \/ DeallocateAgain
    \/ DeallocateInvalid

Spec == Init /\ [][Next]_vars

\* the same caller donating whole chunk units
NextBlocks ==
    \/ InsertBlock
    \/ Allocate
    \/ Deallocate
    \/ DeallocateAgain
    \/ DeallocateInvalid

SpecBlocks == Init /\ [][NextBlocks]_vars

\* block sizes that make a chunk of one node and a chunk of two
ChunkSizes(l) ==
    {chunk_memory_offset + node_fence_size(l) + 1,
     chunk_memory_offset + 2 * node_fence_size(l)}

\* the caller donating blocks of one chunk each
InsertChunk ==
    /\ inserts < MaxChunkInserts
    /\ \E size \in ChunkSizes(list) : InsertCall(brk, size)

NextChunks ==
    \/ InsertChunk
    \/ Allocate
    \/ Deallocate
    \/ DeallocateInvalid

SpecChunks == Init /\ [][NextChunks]_vars

\* two lists, of node sizes that may differ
InitMove ==
    /\ debug_fence_size \in FenceSizes
    /\ \E ns \in NodeSizes : list = new_list(ns)
    /\ \E ns \in NodeSizes : other = new_list(ns)
    /\ InitCaller
    /\ is_stateful = TRUE
    /\ InitAdapter

\* a block that makes one chunk of one node
InsertForMove ==
    /\ inserts < MaxMoveInserts
    /\ InsertCall(brk, chunk_memory_offset + node_fence_size(list) + 1)

\* swap(list, other); the caller gives the nodes of each back through the
\* other from now on
Swap ==
    /\ report = "none"
    /\ moves < MaxMoves
    /\ list' = list_swap(list, other).a
    /\ other' = list_swap(list, other).b
    /\ outstanding' = other_outstanding
    /\ other_outstanding' = outstanding
    /\ freed' = other_freed
    /\ other_freed' = freed
    /\ moves' = moves + 1
    /\ last' = [op |-> "swap", arg |-> 0, ret |-> NULL]
    /\ UNCHANGED <<debug_fence_size, chunks, mem, brk, inserts, report,
                   thread_vars, heap_vars>>

\* a new object is constructed from list and takes the place of other
MoveConstruct ==
    /\ report = "none"
    /\ moves < MaxMoves
    /\ other' = list_move(list).target
    /\ list' = list_move(list).source
    /\ other_outstanding' = outstanding
    /\ outstanding' = {}
    /\ other_freed' = freed
    /\ freed' = {}
    /\ moves' = moves + 1
    /\ last' = [op |-> "move", arg |-> 0, ret |-> NULL]
    /\ UNCHANGED <<debug_fence_size, chunks, mem, brk, inserts, report,
                   thread_vars, heap_vars>>

\* list = std::move(other)
MoveAssign ==
    /\ report = "none"
    /\ moves < MaxMoves
    /\ list' = list_move_assign(list, other).this
    /\ other' = list_move_assign(list, other).source
    /\ outstanding' = other_outstanding
    /\ other_outstanding' = {}
    /\ freed' = other_freed
    /\ other_freed' = {}
    /\ moves' = moves + 1
    /\ last' = [op |-> "assign", arg |-> 0, ret |-> NULL]
    /\ UNCHANGED <<debug_fence_size, chunks, mem, brk, inserts, report,
                   thread_vars, heap_vars>>

NextMove ==
    \/ InsertForMove
    \/ Allocate
    \/ Deallocate
    \/ Swap
    \/ MoveConstruct
    \/ MoveAssign

SpecMove == InitMove /\ [][NextMove]_vars

\* node sizes below, at and above max_alignment, one of them no power of
\* two
AlignNodeSizes == {2, 3, max_alignment, 2 * max_alignment}

\* lists of those node sizes, the first block at either of two
\* max_alignment-aligned addresses
InitAlign ==
    /\ debug_fence_size \in FenceSizes
    /\ \E ns \in AlignNodeSizes : list = new_list(ns)
    /\ other = new_list(node_size(list))
    /\ InitCaller
    /\ is_stateful = TRUE
    /\ InitAdapter

\* the caller leaves a gap of max_alignment bytes before the next block
SkipAhead ==
    /\ report = "none"
    /\ inserts = 0
    /\ brk = BaseAddress
    /\ brk' = brk + max_alignment
    /\ UNCHANGED <<debug_fence_size, list, chunks, mem, inserts, outstanding,
                   freed, last, report, second_vars, thread_vars,
                   heap_vars>>

NextAlign ==
    \/ SkipAhead
    \/ InsertBlock
    \/ Allocate
    \/ Deallocate

SpecAlign == InitAlign /\ [][NextAlign]_vars

(***************************************************************************)
(* thread_safe_allocator (src/threading.hpp): threads call the entry       *)
(* points of one adapter.  Each entry point constructs a lock_guard on the *)
(* adapter's mutex_storage, calls the wrapped allocator through the        *)
(* traits and destroys the guard on the way out, by return or by an        *)
(* exception passing through.                                              *)
(***************************************************************************)
EntryPoints ==
    {"allocate_node", "allocate_array", "deallocate_node",
     "deallocate_array", "max_node_size", "max_array_size", "max_alignment"}

\* the entry points declared noexcept
NoexceptEntryPoints == {"deallocate_node", "deallocate_array"}

\* mutex_for with dummy_mutex selected whatever the allocator
mutex_for_dummy(stateful) == "dummy_mutex"

\* detail::mutex_for: stateless allocators get the dummy mutex
mutex_for(stateful) == IF stateful THEN "Mutex" ELSE "dummy_mutex"

\* mutex_storage::lock() can return: the dummy does nothing, a real mutex
\* has to be free
lock_returns(stateful, m) == mutex_for(stateful) = "dummy_mutex" \/ m = 0

\* mutex_ after mutex_storage::lock() called by thread t has returned
lock(stateful, m, t) == IF mutex_for(stateful) = "dummy_mutex" THEN m ELSE t

\* mutex_ after mutex_storage::unlock()
unlock(stateful, m) == IF mutex_for(stateful) = "dummy_mutex" THEN m ELSE 0

InitThreads ==
    /\ debug_fence_size = 0
    /\ list = new_list(1)
    /\ other = new_list(1)
    /\ InitCaller
    /\ is_stateful \in BOOLEAN
    /\ InitAdapter

list_vars == <<debug_fence_size, list, chunks, mem, brk, inserts, outstanding,
               freed, last, report, second_vars>>

\* thread t calls entry point f
Call(t, f) ==
    /\ pc[t].at = "idle"
    /\ pc' = [pc EXCEPT ![t] = [fn |-> f, at |-> "lock"]]
    /\ UNCHANGED <<is_stateful, mutex_, proxies, list_vars, heap_vars>>

\* std::lock_guard<actual_mutex> lock(*this): returns once the mutex is
\* locked; the call into the wrapped allocator follows
LockGuard(t) ==
    /\ pc[t].at = "lock"
    /\ lock_returns(is_stateful, mutex_)
    /\ mutex_' = lock(is_stateful, mutex_, t)
    /\ pc' = [pc EXCEPT ![t].at = "inside"]
    /\ UNCHANGED <<is_stateful, proxies, list_vars, heap_vars>>

\* the wrapped allocator returns
Return(t) ==
    /\ pc[t].at = "inside"
    /\ pc' = [pc EXCEPT ![t].at = "return"]
    /\ UNCHANGED <<is_stateful, mutex_, proxies, list_vars, heap_vars>>

\* the wrapped allocator throws
Throw(t) ==
    /\ pc[t].at = "inside"
    /\ pc[t].fn \notin NoexceptEntryPoints
    /\ pc' = [pc EXCEPT ![t].at = "unwind"]
    /\ UNCHANGED <<is_stateful, mutex_, proxies, list_vars, heap_vars>>

\* the lock_guard is destroyed and the entry point is left
Unlock(t) ==
    /\ pc[t].at \in {"return", "unwind"}
    /\ mutex_' = unlock(is_stateful, mutex_)
    /\ pc' = [pc EXCEPT ![t] = [fn |-> "none", at |-> "idle"]]
    /\ UNCHANGED <<is_stateful, proxies, list_vars, heap_vars>>

NextThreads ==
    \/ \E t \in Threads : \E f \in EntryPoints : Call(t, f)
    \/ \E t \in Threads : LockGuard(t)
    \/ \E t \in Threads : Return(t)
    \/ \E t \in Threads : Throw(t)
    \/ \E t \in Threads : Unlock(t)

SpecThreads == InitThreads /\ [][NextThreads]_vars

(***************************************************************************)
(* thread_safe_allocator::lock() and detail::locked_allocator: the proxy   *)
(* keeps a std::unique_lock on the adapter's mutex_storage and a pointer   *)
(* to the wrapped allocator.  lock_ is modelled by whether the unique_lock *)
(* owns the mutex.  A thread keeps its proxies where it likes, so they are *)
(* destroyed in any order.                                                 *)
(***************************************************************************)
\* locked_allocator(alloc, m): unique_lock<Mutex>(m) has locked m and owns it
locked_allocator(alloc) == [lock_ |-> TRUE, alloc_ |-> alloc]

\* the move constructor with the source left owning the lock as well
locked_allocator_move_copies(o) ==
    [target |-> [lock_ |-> o.lock_, alloc_ |-> o.alloc_], source |-> o]

\* locked_allocator(locked_allocator &&other): the unique_lock is moved, the
\* source owns nothing afterwards and keeps its pointer
locked_allocator_move(o) ==
    [target |-> [lock_ |-> o.lock_, alloc_ |-> o.alloc_],
     source |-> [lock_ |-> FALSE, alloc_ |-> o.alloc_]]

\* mutex_ after ~locked_allocator(): the unique_lock unlocks what it owns
locked_allocator_destroy(stateful, m, p) ==
    IF p.lock_ THEN unlock(stateful, m) ELSE m

\* s without its i-th element
Without(s, i) == SubSeq(s, 1, i - 1) \o SubSeq(s, i + 1, Len(s))

\* the entry points the threads call next to lock(): one that may throw and
\* one that is noexcept
ProxyEntryPoints == {"allocate_node", "deallocate_node"}

\* thread t calls an entry point; a thread does not lock a mutex it holds
CallEntry(t, f) ==
    /\ mutex_ # t
    /\ Call(t, f)

\* thread t calls lock(): the proxy is constructed in the return value
CallLock(t) ==
    /\ pc[t].at = "idle"
    /\ mutex_ # t
    /\ Len(proxies[t]) < MaxProxies
    /\ pc' = [pc EXCEPT ![t] = [fn |-> "lock", at |-> "construct"]]
    /\ UNCHANGED <<is_stateful, mutex_, proxies, list_vars, heap_vars>>

\* the unique_lock constructor returns once the mutex is locked, and lock()
\* returns the proxy
Construct(t) ==
    /\ pc[t].at = "construct"
    /\ lock_returns(is_stateful, mutex_)
    /\ mutex_' = lock(is_stateful, mutex_, t)
    /\ proxies' = [proxies EXCEPT
                      ![t] = Append(@, locked_allocator("raw_allocator"))]
    /\ pc' = [pc EXCEPT ![t] = [fn |-> "none", at |-> "idle"]]
    /\ UNCHANGED <<is_stateful, list_vars, heap_vars>>

\* thread t move-constructs a proxy from its i-th one
MoveProxy(t, i) ==
    /\ pc[t].at = "idle"
    /\ i \in 1..Len(proxies[t])
    /\ Len(proxies[t]) < MaxProxies
    /\ LET r == locked_allocator_move(proxies[t][i])
       IN  proxies' = [proxies EXCEPT
                          ![t] = Append([@ EXCEPT ![i] = r.source], r.target)]
    /\ UNCHANGED <<is_stateful, mutex_, pc, list_vars, heap_vars>>

\* the i-th proxy of thread t is destroyed
DestroyProxy(t, i) ==
    /\ pc[t].at = "idle"
    /\ i \in 1..Len(proxies[t])
    /\ mutex_' = locked_allocator_destroy(is_stateful, mutex_, proxies[t][i])
    /\ proxies' = [proxies EXCEPT ![t] = Without(@, i)]
    /\ UNCHANGED <<is_stateful, pc, list_vars, heap_vars>>

\* thread t enters the wrapped allocator through operator-> or operator* of
\* its i-th proxy
UseProxy(t, i) ==
    /\ pc[t].at = "idle"
    /\ i \in 1..Len(proxies[t])
    /\ pc' = [pc EXCEPT ![t] = [fn |-> "operator->", at |-> "through"]]
    /\ UNCHANGED <<is_stateful, mutex_, proxies, list_vars, heap_vars>>

\* and comes back from it
LeaveProxy(t) ==
    /\ pc[t].at = "through"
    /\ pc' = [pc EXCEPT ![t] = [fn |-> "none", at |-> "idle"]]
    /\ UNCHANGED <<is_stateful, mutex_, proxies, list_vars, heap_vars>>

NextProxy ==
    \/ \E t \in Threads : \E f \in ProxyEntryPoints : CallEntry(t, f)
    \/ \E t \in Threads : LockGuard(t)
    \/ \E t \in Threads : Return(t)
    \/ \E t \in Threads : Throw(t)
    \/ \E t \in Threads : Unlock(t)
    \/ \E t \in Threads : CallLock(t)
    \/ \E t \in Threads : Construct(t)
    \/ \E t \in Threads : \E i \in 1..MaxProxies : MoveProxy(t, i)
    \/ \E t \in Threads : \E i \in 1..MaxProxies : DestroyProxy(t, i)
    \/ \E t \in Threads : \E i \in 1..MaxProxies : UseProxy(t, i)
    \/ \E t \in Threads : LeaveProxy(t)

SpecProxy == InitThreads /\ [][NextProxy]_vars

(***************************************************************************)
(* new_allocator (src/new_allocator.cpp) over the global heap.  std::size_t *)
(* and addresses are size_t_bits wide and arithmetic on them wraps.  The   *)
(* build modelled fills memory (debug_fill writes), with or without        *)
(* fences.  `mem` holds the byte last written at an address, `last` what   *)
(* the last call asked of the heap, returned and wrote.                    *)
(***************************************************************************)
SizeMax == 2 ^ size_t_bits - 1

\* unsigned arithmetic of std::size_t and of pointers
size_t(x) == x % (SizeMax + 1)

\* the n bytes starting at p
Bytes(p, n) == {size_t(p + i) : i \in 0..(n - 1)}

\* the bytes B set to magic
memset(m, B, magic) ==
    [a \in DOMAIN m \cup B |-> IF a \in B THEN magic ELSE m[a]]

\* detail::debug_fill(memory, size, magic): size bytes set to magic
debug_fill(m, p, n, magic) == memset(m, Bytes(p, n), magic)

\* where operator new can put a block
HeapAddresses == {max_alignment * k : k \in 1..HeapSlots}

\* the bytes of the live blocks; a block of no bytes still has its address
Live(h) == UNION {Bytes(b, h[b]) \cup {b} : b \in DOMAIN h}

\* ::operator new(n): the addresses it can return, none when it throws
\* std::bad_alloc for want of room
operator_new(h, n) ==
    {b \in HeapAddresses :
        /\ b + n <= SizeMax + 1
        /\ (Bytes(b, n) \cup {b}) \cap Live(h) = {}}

\* ::operator delete(memory)
operator_delete(h, memory) == [b \in DOMAIN h \ {memory} |-> h[b]]

\* new_allocator::allocate_node(size, alignment), base being what
\* ::operator new(size + 2 * debug_fence_size) returned
new_allocator_allocate_node(h, m, fence, base, size, align) ==
    LET n == size_t(size + 2 * fence)
        m1 == debug_fill(m, base, fence, "fence_memory")
        p == size_t(base + fence)
        m2 == debug_fill(m1, p, size, "new_memory")
        m3 == debug_fill(m2, size_t(p + size), fence, "fence_memory")
    IN  [ret |-> p, node |-> p, base |-> base, n |-> n,
         heap |-> (base :> n) @@ h, mem |-> m3,
         written |-> Bytes(base, fence) \cup Bytes(p, size)
                        \cup Bytes(size_t(p + size), fence)]

\* new_allocator::deallocate_node(node, size, alignment)
new_allocator_deallocate_node(h, m, fence, node, size, align) ==
    LET m1 == debug_fill(m, node, size, "freed_memory")
        memory == size_t(node - fence)
    IN  [ret |-> NULL, node |-> node, base |-> memory,
         n |-> IF memory \in DOMAIN h THEN h[memory] ELSE 0,
         heap |-> operator_delete(h, memory), mem |-> m1,
         written |-> Bytes(node, size)]

\* sizes asked for: small ones and the largest std::size_t has
NewSizes == {1, 8, SizeMax - 7, SizeMax}

Alignments == {1, max_alignment}

InitNew ==
    /\ debug_fence_size \in FenceSizes
    /\ list = new_list(1)
    /\ other = new_list(1)
    /\ InitCaller
    /\ is_stateful = TRUE
    /\ InitAdapter

rest_vars == <<debug_fence_size, list, chunks, brk, inserts, outstanding,
               freed, second_vars, thread_vars>>

\* what a call leaves behind; `last` gets the size passed (arg), what was
\* returned (ret), the node the call was about, the block asked of or given
\* back to the heap (base, n) and the bytes written.  A write outside the
\* block the heap gave is undefined: the process is stopped by it, or the
\* bytes are overwritten and nothing is known of what follows.  The bytes
\* of a block given back to the heap are no longer the program's.
NewReturns(r, op, size, block) ==
    /\ mem' = [a \in DOMAIN r.mem \ (block \ Live(r.heap)) |-> r.mem[a]]
    /\ heap' = r.heap
    /\ last' = [op |-> op, arg |-> size, ret |-> r.ret, node |-> r.node,
                base |-> r.base, n |-> r.n, written |-> r.written]
    /\ report' \in IF r.written \subseteq block
                   THEN {"none"} ELSE {"segfault", "overwritten"}

\* the caller asks for a node and keeps it
AllocateNode ==
    /\ report = "none"
    /\ Cardinality(DOMAIN nodes) < MaxNodes
    /\ \E size \in NewSizes : \E align \in Alignments :
       \E base \in operator_new(heap, size_t(size + 2 * debug_fence_size)) :
          LET r == new_allocator_allocate_node(heap, mem, debug_fence_size,
                                               base, size, align)
          IN  /\ NewReturns(r, "allocate_node", size, Bytes(r.base, r.n))
              /\ nodes' = (r.ret :> size) @@ nodes
    /\ UNCHANGED rest_vars

\* operator new throws std::bad_alloc and allocate_node lets it pass
BadAlloc ==
    /\ report = "none"
    /\ \E size \in NewSizes :
          last' = [op |-> "bad_alloc", arg |-> size, ret |-> NULL,
                   node |-> NULL, base |-> NULL,
                   n |-> size_t(size + 2 * debug_fence_size), written |-> {}]
    /\ UNCHANGED <<mem, heap, nodes, report, rest_vars>>

\* the caller gives a node back with the size it asked for; handing
\* operator delete an address operator new did not return is undefined
DeallocateNode ==
    /\ report = "none"
    /\ \E node \in DOMAIN nodes : \E align \in Alignments :
          LET r == new_allocator_deallocate_node(heap, mem, debug_fence_size,
                                                 node, nodes[node], align)
          IN  /\ IF r.base \in DOMAIN heap
                 THEN NewReturns(r, "deallocate_node", nodes[node],
                                 Bytes(r.base, heap[r.base]))
                 ELSE /\ report' = "invalid_delete"
                      /\ mem' = r.mem
                      /\ heap' = heap
                      /\ last' = [op |-> "deallocate_node", arg |-> nodes[node],
                                  ret |-> NULL, node |-> node, base |-> r.base,
                                  n |-> 0, written |-> r.written]
              /\ nodes' = [q \in DOMAIN nodes \ {node} |-> nodes[q]]
    /\ UNCHANGED rest_vars

NextNew ==
    \/ AllocateNode
    \/ BadAlloc
    \/ DeallocateNode

SpecNew == InitNew /\ [][NextNew]_vars

(***************************************************************************)
(* What the properties speak about.                                        *)
(***************************************************************************)
\* the chunks linked, in either direction, to the head of a chunk list
RECURSIVE Linked(_, _)
Linked(ch, S) ==
    LET T == S \cup {ch[c].next : c \in S} \cup {ch[c].prev : c \in S}
    IN IF T = S THEN S ELSE Linked(ch, T)

Members(ch, first_) == IF first_ = NULL THEN {} ELSE Linked(ch, {first_})

UnusedChunks == Members(chunks, list.unused_chunks_)
UsedChunks == Members(chunks, list.used_chunks_)
ListChunks == UnusedChunks \cup UsedChunks

RECURSIVE SumCapacity(_, _)
SumCapacity(ch, S) ==
    IF S = {} THEN 0
    ELSE LET c == CHOOSE x \in S : TRUE
         IN ch[c].capacity + SumCapacity(ch, S \ {c})

\* the call that was made last has returned
Returned == report = "none"

\* the slot address of a user pointer and the user pointer of a slot
SlotOf(p) == debug_fill_free(p, node_size(list), alignment(list))
PointerOf(a) == debug_fill_new(a, node_size(list), alignment(list))

(***************************************************************************)
(* C1: after every public call returns, capacity_ is the sum of the        *)
(* capacity fields of the chunks in the unused and the used chunk list.    *)
(***************************************************************************)
C1_CapacityIsSum ==
    Returned => list.capacity_ = SumCapacity(chunks, ListChunks)

(***************************************************************************)
(* C2: whenever capacity_ >= 1, allocate() succeeds: no assertion fails,   *)
(* alloc_chunk_ is left non-null and a node of it is returned.             *)
(***************************************************************************)
C2_AllocateSucceeds ==
    (Returned /\ list.capacity_ >= 1) =>
        LET r == allocate(list, chunks, mem)
        IN /\ r.report = "none"
           /\ r.list.alloc_chunk_ # NULL
           /\ r.ret # NULL

(***************************************************************************)
(* C3: the node allocate() returns is none of the nodes that are           *)
(* outstanding, and its bytes overlap the bytes of none of them.           *)
(***************************************************************************)
Overlap(p, q) == p < q + node_size(list) /\ q < p + node_size(list)

C3_FreshNode ==
    [][(Allocate /\ report' = "none") =>
          \A q \in outstanding : ~Overlap(last'.ret, q)]_vars

\* an allocation has returned while other nodes were outstanding and after
\* nodes had been given back
C3_Witness ==
    /\ Returned
    /\ last.op = "allocate"
    /\ Cardinality(outstanding) >= 2
    /\ freed # {}

(***************************************************************************)
(* C4: every node address handed out by allocate() equals                  *)
(* list_memory(c) + i * node_fence_size() for a chunk c of the used list   *)
(* and an index i with 0 <= i < c->no_nodes.                               *)
(***************************************************************************)
IsSlotAddress(a) ==
    \E c \in UsedChunks : \E i \in 0..(chunks[c].no_nodes - 1) :
        a = list_memory(c) + i * node_fence_size(list)

\* as claimed: the address returned is itself a slot address
C4_ReturnedIsSlotAddress ==
    Returned => \A p \in outstanding : IsSlotAddress(p)

\* as amended: the address returned, less the leading fence of alignment()
\* bytes in a build with fences, is a slot address
C4_NodeInSlot ==
    Returned => \A p \in outstanding : IsSlotAddress(SlotOf(p))

\* nodes of two chunks are outstanding
C4_Witness ==
    /\ Returned
    /\ last.op = "allocate"
    /\ \E p, q \in outstanding : \E c, d \in UsedChunks :
          /\ c # d
          /\ from_chunk(chunks, c, node_fence_size(list), SlotOf(p))
          /\ from_chunk(chunks, d, node_fence_size(list), SlotOf(q))

(***************************************************************************)
(* C5: in every chunk the free chain from first_node visits exactly        *)
(* `capacity` slot indices, pairwise distinct and all below no_nodes, and  *)
(* then ends at no_nodes.                                                  *)
(***************************************************************************)
\* follows the chain as chunk_contains does, from the state
\* s = [cur_index, visited, broken]; stops at no_nodes, or broken at an
\* index that is out of range or was visited before
RECURSIVE chain_loop(_, _, _, _, _)
chain_loop(ch, m, c, s, fuel) ==
    LET half == fuel \div 2
        mid == chain_loop(ch, m, c, s, half)
    IN IF s.broken \/ s.cur_index = ch[c].no_nodes \/ fuel = 0 THEN s
       ELSE IF fuel = 1
       THEN IF \/ s.cur_index > ch[c].no_nodes
               \/ \E k \in 1..Len(s.visited) : s.visited[k] = s.cur_index
            THEN [s EXCEPT !.broken = TRUE]
            ELSE [cur_index |-> m[list_memory(c) + s.cur_index
                                                 * node_fence_size(list)],
                  visited |-> Append(s.visited, s.cur_index),
                  broken |-> FALSE]
       ELSE IF mid.broken \/ mid.cur_index = ch[c].no_nodes THEN mid
       ELSE chain_loop(ch, m, c, mid, fuel - half)

free_chain(ch, m, c) ==
    chain_loop(ch, m, c, [cur_index |-> ch[c].first_node, visited |-> <<>>,
                          broken |-> FALSE], chunk_max_nodes + 2)

C5_FreeChain ==
    Returned =>
        \A c \in DOMAIN chunks :
            LET f == free_chain(chunks, mem, c)
            IN /\ ~f.broken
               /\ f.cur_index = chunks[c].no_nodes
               /\ Len(f.visited) = chunks[c].capacity

\* a chain that deallocation has put in another order than create_chunk
C5_Witness ==
    /\ Returned
    /\ \E c \in DOMAIN chunks : free_chain(chunks, mem, c).visited = <<1, 0>>

(***************************************************************************)
(* C6: insert(memory, size) lays out size / chunk_unit chunks of 255 nodes *)
(* and, when the residual size % chunk_unit holds chunk_memory_offset and  *)
(* at least one slot, a last chunk of (residual - chunk_memory_offset) /   *)
(* slot nodes, all in the unused list; a smaller residual makes no chunk.  *)
(***************************************************************************)
ExpectedChunks(memory, size) ==
    LET slot == node_fence_size(list)
        unit == chunk_unit(list)
        n == size \div unit
        residual == size % unit
    IN [c \in {memory + i * unit : i \in 0..(n - 1)} |-> chunk_max_nodes]
       @@ (IF residual >= chunk_memory_offset + slot
           THEN (memory + n * unit) :>
                    ((residual - chunk_memory_offset) \div slot)
           ELSE <<>>)

\* the chunks of the block donated last
CreatedChunks == {c \in DOMAIN chunks : c >= last.ret}

C6_InsertLayout ==
    (Returned /\ last.op = "insert") =>
        LET e == ExpectedChunks(last.ret, last.arg)
        IN /\ CreatedChunks = DOMAIN e
           /\ \A c \in CreatedChunks :
                 /\ chunks[c].no_nodes = e[c]
                 /\ c \in UnusedChunks

(***************************************************************************)
(* C7: insert never returns without having added at least one node that    *)
(* can be allocated: a call that creates no chunk fails its assertion.     *)
(***************************************************************************)
C7_InsertAddsNode ==
    (Returned /\ last.op = "insert") =>
        \E c \in CreatedChunks : c \in UnusedChunks /\ chunks[c].capacity >= 1

(***************************************************************************)
(* C8: from a state reached by inserts with capacity() = c, c calls of     *)
(* allocate() all succeed and bring capacity() to 0; deallocating the c    *)
(* nodes in any order brings capacity() back to c, and allocate() then     *)
(* succeeds.                                                               *)
(***************************************************************************)
RECURSIVE AllocateAll(_, _, _, _, _)
AllocateAll(l, ch, m, k, got) ==
    IF k = 0
    THEN [ok |-> TRUE, list |-> l, chunks |-> ch, mem |-> m, got |-> got]
    ELSE LET r == allocate(l, ch, m)
         IN IF r.report # "none"
            THEN [ok |-> FALSE, list |-> r.list, chunks |-> r.chunks,
                  mem |-> r.mem, got |-> got]
            ELSE AllocateAll(r.list, r.chunks, r.mem, k - 1,
                             got \cup {r.ret})

RECURSIVE RefillAnyOrder(_, _, _, _, _)
RefillAnyOrder(l, ch, m, S, c) ==
    IF S = {}
    THEN l.capacity_ = c /\ allocate(l, ch, m).report = "none"
    ELSE \A p \in S :
            LET d == deallocate(l, ch, m, p)
            IN /\ d.report = "none"
               /\ RefillAnyOrder(d.list, d.chunks, d.mem, S \ {p}, c)

C8_ExhaustRefill ==
    (Returned /\ list.used_chunks_ = NULL /\ list.capacity_ >= 1) =>
        LET c == list.capacity_
            a == AllocateAll(list, chunks, mem, c, {})
        IN /\ a.ok
           /\ a.list.capacity_ = 0
           /\ Cardinality(a.got) = c
           /\ RefillAnyOrder(a.list, a.chunks, a.mem, a.got, c)

(***************************************************************************)
(* C9: where allocate() succeeds, deallocate(allocate()) leaves capacity_  *)
(* and, for every chunk, its capacity and its set of free slot indices as  *)
(* they were.                                                              *)
(***************************************************************************)
FreeSet(ch, m, c) ==
    LET f == free_chain(ch, m, c)
    IN {f.visited[k] : k \in 1..Len(f.visited)}

C9_RoundTrip ==
    Returned =>
        LET a == allocate(list, chunks, mem)
            d == deallocate(a.list, a.chunks, a.mem, a.ret)
        IN a.report = "none" =>
              /\ d.report = "none"
              /\ d.list.capacity_ = list.capacity_
              /\ d.list.node_size_ = list.node_size_
              /\ DOMAIN d.chunks = DOMAIN chunks
              /\ \A c \in DOMAIN chunks :
                    /\ d.chunks[c].capacity = chunks[c].capacity
                    /\ d.chunks[c].no_nodes = chunks[c].no_nodes
                    /\ FreeSet(d.chunks, d.mem, c) = FreeSet(chunks, mem, c)

\* allocate() has to leave a full alloc_chunk_ for another chunk, with
\* nodes outstanding and nodes given back
C9_Witness ==
    /\ Returned
    /\ outstanding # {}
    /\ freed # {}
    /\ list.alloc_chunk_ # NULL
    /\ LET a == allocate(list, chunks, mem)
       IN a.report = "none" /\ a.list.alloc_chunk_ # list.alloc_chunk_

(***************************************************************************)
(* C10: deallocate(p) for a node p that is on the free chain of its chunk  *)
(* makes the double-free report before the chain of the chunk or a         *)
(* capacity counter is modified.                                           *)
(***************************************************************************)
\* the user pointers of the free nodes of the chunks allocate() has used
FreePointers ==
    UNION {{PointerOf(list_memory(c) + i * node_fence_size(list)) :
               i \in FreeSet(chunks, mem, c)} : c \in UsedChunks}

C10_DoubleFreeReported ==
    Returned =>
        \A p \in FreePointers :
            LET d == deallocate(list, chunks, mem, p)
            IN /\ d.report = "double_free"
               /\ d.chunks = chunks
               /\ d.mem = mem
               /\ d.list.capacity_ = list.capacity_

\* a node was given back twice while another chunk was the one allocate()
\* serves from
C10_Witness ==
    /\ report = "double_free"
    /\ last.op = "deallocate"
    /\ last.arg \in freed
    /\ list.alloc_chunk_ # list.dealloc_chunk_

(***************************************************************************)
(* C11: deallocate(p) makes the invalid-pointer report if and only if the  *)
(* internal address of p lies in the node array of no chunk of the used    *)
(* list, or lies in one at an offset that is no multiple of the slot size; *)
(* a node that is outstanding is never reported.                           *)
(***************************************************************************)
\* the addresses a caller may pass: every byte of the blocks donated and
\* one byte on either side
ProbePointers == (BaseAddress - 1)..(brk + 1)

NotFromUsedList(p) ==
    \A c \in UsedChunks :
        ~from_chunk(chunks, c, node_fence_size(list), SlotOf(p))

Misaligned(p) ==
    \E c \in UsedChunks :
        /\ from_chunk(chunks, c, node_fence_size(list), SlotOf(p))
        /\ (SlotOf(p) - list_memory(c)) % node_fence_size(list) # 0

InvalidPointerExact ==
    /\ \A p \in ProbePointers :
          deallocate(list, chunks, mem, p).report = "invalid_pointer"
              <=> (NotFromUsedList(p) \/ Misaligned(p))
    /\ \A p \in outstanding :
          deallocate(list, chunks, mem, p).report = "none"

C11_InvalidPointerExact == Returned => InvalidPointerExact

\* the same once allocate() has returned a node, which leaves both caches
\* set
C11_ExactOnceAllocated ==
    (Returned /\ list.alloc_chunk_ # NULL) => InvalidPointerExact

(***************************************************************************)
(* C12: every pointer allocate() returns is a multiple of                  *)
(* alignment_for(node_size), for every node size that is a multiple of its *)
(* alignment_for value and every max_alignment-aligned block.              *)
(***************************************************************************)
C12_NodeAligned ==
    (Returned /\ node_size(list) % alignment(list) = 0) =>
        \A p \in outstanding : is_aligned(p, alignment(list))

\* the same for the node sizes whose alignment_for value is a power of two
C12_AlignedPowerOfTwo ==
    (Returned /\ alignment(list) \in {1, 2, 4, 8, 16}) =>
        \A p \in outstanding : is_aligned(p, alignment(list))

(***************************************************************************)
(* C13: after swap(a, b) each list holds exactly what the other held, and  *)
(* after a move construction or a move assignment the target holds what    *)
(* the source held and the source has no chunks, null caches and capacity  *)
(* 0; every node outstanding from a list is accepted by deallocate of the  *)
(* list that holds its chunks now, whose capacity grows by 1.              *)
(***************************************************************************)
MovedFrom(l) ==
    /\ l.unused_chunks_ = NULL
    /\ l.used_chunks_ = NULL
    /\ l.alloc_chunk_ = NULL
    /\ l.dealloc_chunk_ = NULL
    /\ l.capacity_ = 0

Accepts(l, held) ==
    \A p \in held :
        /\ deallocate(l, chunks, mem, p).report = "none"
        /\ deallocate(l, chunks, mem, p).list.capacity_ = l.capacity_ + 1

C13_OwnershipMoves ==
    /\ [](Returned => Accepts(list, outstanding)
                      /\ Accepts(other, other_outstanding))
    /\ [][/\ Swap => (list' = other /\ other' = list)
          /\ MoveConstruct => (other' = list /\ MovedFrom(list'))
          /\ MoveAssign => (list' = other /\ MovedFrom(other'))]_vars

\* after a swap each list has outstanding nodes that the other handed out
C13_Witness ==
    /\ Returned
    /\ last.op = "swap"
    /\ outstanding # {}
    /\ other_outstanding # {}
    /\ list.used_chunks_ # other.used_chunks_

(***************************************************************************)
(* C14: with a stateful allocator and a real mutex no two threads are in   *)
(* the wrapped allocator at a time, whichever entry points they called,    *)
(* and the mutex is released when a call returns: it is held only by a     *)
(* thread that is between the construction and the destruction of its      *)
(* lock_guard.                                                             *)
(***************************************************************************)
Inside == {t \in Threads : pc[t].at = "inside"}

Guarded == {t \in Threads : pc[t].at \in {"inside", "return", "unwind"}}

C14_Serialized ==
    is_stateful =>
        /\ Cardinality(Inside) <= 1
        /\ Cardinality(Guarded) <= 1
        /\ \A t \in Threads : mutex_ = t <=> t \in Guarded
        /\ mutex_ = 0 <=> Guarded = {}

\* a thread is in the wrapped allocator while another waits for the mutex
C14_Witness ==
    /\ is_stateful
    /\ \E t, u \in Threads :
          /\ pc[t].at = "inside"
          /\ mutex_ = t
          /\ pc[u].at = "lock"
          /\ pc[u].fn # pc[t].fn

(***************************************************************************)
(* C15: nodes are reused in LIFO order within a chunk: after deallocate(p) *)
(* the next allocate() served from the chunk of p returns p, at once when  *)
(* that chunk is alloc_chunk_; an allocate() served from another chunk     *)
(* leaves the chain of the chunk of p as it is; and of two nodes given     *)
(* back to one chunk the second comes back first.                          *)
(***************************************************************************)
ChunkOf(p) ==
    CHOOSE c \in UsedChunks :
        from_chunk(chunks, c, node_fence_size(list), SlotOf(p))

\* allocate() after deallocate(p), d being what deallocate(p) left
ReusedNext(p, d) ==
    LET a == allocate(d.list, d.chunks, d.mem)
    IN /\ d.report = "none"
       /\ d.list.alloc_chunk_ = ChunkOf(p) => a.report = "none"
       /\ (a.report = "none" /\ a.list.alloc_chunk_ = ChunkOf(p))
              => a.ret = p
       /\ (a.report = "none" /\ a.list.alloc_chunk_ # ChunkOf(p))
              => /\ a.chunks[ChunkOf(p)].first_node
                        = d.chunks[ChunkOf(p)].first_node
                 /\ a.chunks[ChunkOf(p)].capacity
                        = d.chunks[ChunkOf(p)].capacity
                 /\ a.mem = d.mem

\* two allocate() calls after deallocate(p); deallocate(q), d being what
\* the two left
ReusedInTurn(p, q, d) ==
    LET a == allocate(d.list, d.chunks, d.mem)
        b == allocate(a.list, a.chunks, a.mem)
    IN (/\ d.report = "none"
        /\ a.report = "none"
        /\ a.list.alloc_chunk_ = ChunkOf(p))
           => /\ a.ret = q
              /\ b.report = "none"
              /\ b.ret = p

C15_LifoReuse ==
    Returned =>
        /\ \A p \in outstanding :
              ReusedNext(p, deallocate(list, chunks, mem, p))
        /\ \A p, q \in outstanding :
              (p # q /\ ChunkOf(p) = ChunkOf(q)) =>
                  ReusedInTurn(p, q,
                      deallocate(deallocate(list, chunks, mem, p).list,
                                 deallocate(list, chunks, mem, p).chunks,
                                 deallocate(list, chunks, mem, p).mem, q))

\* the first node of a chunk was given back and has been handed out again
\* while the second node of that chunk was outstanding
C15_Witness ==
    /\ Returned
    /\ last.op = "allocate"
    /\ \E c \in UsedChunks :
          /\ last.ret = PointerOf(list_memory(c))
          /\ PointerOf(list_memory(c) + node_fence_size(list)) \in outstanding

(***************************************************************************)
(* C16: allocate() on a list whose capacity() is 0 fails an assertion; it  *)
(* returns no node and modifies the first_node and the capacity of no      *)
(* chunk.                                                                  *)
(***************************************************************************)
C16_EmptyAllocateAsserts ==
    (Returned /\ list.capacity_ = 0) =>
        /\ allocate(list, chunks, mem).report = "assertion"
        /\ allocate(list, chunks, mem).ret = NULL
        /\ allocate(list, chunks, mem).list = list
        /\ \A c \in DOMAIN chunks :
              /\ allocate(list, chunks, mem).chunks[c].first_node
                     = chunks[c].first_node
              /\ allocate(list, chunks, mem).chunks[c].capacity
                     = chunks[c].capacity

\* allocate() was called with every node of two chunks outstanding and
\* failed its assertion
C16_Witness ==
    /\ report = "assertion"
    /\ last.op = "allocate"
    /\ list.capacity_ = 0
    /\ Cardinality(outstanding) >= 2
    /\ Cardinality(UsedChunks) >= 2

(***************************************************************************)
(* C17: the unused and the used chunk list are well-formed circular        *)
(* doubly-linked lists: c->next->prev == c and c->prev->next == c for      *)
(* every chunk c of the list, and following next from first_ visits every  *)
(* chunk of the list exactly once before it is back at first_.             *)
(***************************************************************************)
\* the chunks met by following next from c until first_ or a chunk met
\* before comes up
RECURSIVE NextPath(_, _, _, _)
NextPath(ch, first_, c, path) ==
    IF ch[c].next = first_ \/ ch[c].next \in {path[k] : k \in 1..Len(path)}
    THEN path
    ELSE NextPath(ch, first_, ch[c].next, Append(path, ch[c].next))

WellFormedRing(ch, first_) ==
    first_ # NULL =>
        LET path == NextPath(ch, first_, first_, <<first_>>)
        IN /\ \A c \in Members(ch, first_) :
                 /\ ch[ch[c].next].prev = c
                 /\ ch[ch[c].prev].next = c
           /\ ch[path[Len(path)]].next = first_
           /\ {path[k] : k \in 1..Len(path)} = Members(ch, first_)

C17_WellFormedRings ==
    Returned => /\ WellFormedRing(chunks, list.unused_chunks_)
                /\ WellFormedRing(chunks, list.used_chunks_)

\* what does hold: the prev links of each list form one cycle through all
\* of its chunks, and the next links lead from first_ through all of them
RECURSIVE PrevPath(_, _, _, _)
PrevPath(ch, first_, c, path) ==
    IF ch[c].prev = first_ \/ ch[c].prev \in {path[k] : k \in 1..Len(path)}
    THEN path
    ELSE PrevPath(ch, first_, ch[c].prev, Append(path, ch[c].prev))

PrevRing(ch, first_) ==
    first_ # NULL =>
        LET back == PrevPath(ch, first_, first_, <<first_>>)
            path == NextPath(ch, first_, first_, <<first_>>)
        IN /\ ch[back[Len(back)]].prev = first_
           /\ {back[k] : k \in 1..Len(back)} = Members(ch, first_)
           /\ {path[k] : k \in 1..Len(path)} = Members(ch, first_)

C17_PrevRings ==
    Returned => /\ PrevRing(chunks, list.unused_chunks_)
                /\ PrevRing(chunks, list.used_chunks_)

(***************************************************************************)
(* C18: the bidirectional walk of find_chunk and chunk_for ends on every   *)
(* used list that insert, allocate and deallocate can build, and when it   *)
(* ends without a match every chunk of the used list has been examined.    *)
(***************************************************************************)
\* the walk from dealloc_chunk_ for every set of chunks that the test on
\* the walkers may pass; the callers have tested dealloc_chunk_ before
WalkEnds(hits) ==
    LET w == bidirectional_walk(chunks, hits, list.dealloc_chunk_,
                                list.dealloc_chunk_, {}, WalkFuel(chunks))
    IN /\ w.ended
       /\ w.result # NULL => w.result \in hits
       /\ w.result = NULL =>
              w.seen \cup {list.dealloc_chunk_} = UsedChunks

C18_WalkTerminates ==
    /\ report # "hang"
    /\ (Returned /\ list.dealloc_chunk_ # NULL) =>
           \A hits \in SUBSET (UsedChunks \ {list.dealloc_chunk_}) :
               WalkEnds(hits)

\* chunk_for has walked a used list of three chunks and found the pointer
\* in none of them
C18_Witness ==
    /\ report = "invalid_pointer"
    /\ last.op = "deallocate"
    /\ Cardinality(UsedChunks) >= 3
    /\ NotFromUsedList(last.arg)

(***************************************************************************)
(* C19: after every public call alloc_chunk_ and dealloc_chunk_ are both   *)
(* null or both chunks of the used list of their own list; neither points  *)
(* to a chunk of the unused list or of another list.                       *)
(***************************************************************************)
CachesInUsedList(l, o) ==
    \/ l.alloc_chunk_ = NULL /\ l.dealloc_chunk_ = NULL
    \/ /\ l.alloc_chunk_ # NULL
       /\ l.dealloc_chunk_ # NULL
       /\ {l.alloc_chunk_, l.dealloc_chunk_}
              \subseteq Members(chunks, l.used_chunks_)
       /\ {l.alloc_chunk_, l.dealloc_chunk_}
              \cap (Members(chunks, l.unused_chunks_)
                    \cup Members(chunks, o.unused_chunks_)
                    \cup Members(chunks, o.used_chunks_)) = {}

C19_CachesInUsedList ==
    Returned => /\ CachesInUsedList(list, other)
                /\ CachesInUsedList(other, list)

\* a list whose caches point to two chunks has just been moved or swapped
\* into the second object
C19_Witness ==
    /\ Returned
    /\ other.alloc_chunk_ # NULL
    /\ other.alloc_chunk_ # other.dealloc_chunk_
    /\ last.op \in {"swap", "move"}

(***************************************************************************)
(* C20: when alloc_chunk_ is null or full and the unused list is not       *)
(* empty, allocate() moves the head of the unused list to the front of the *)
(* used list, makes it alloc_chunk_ (and dealloc_chunk_ if that was null)  *)
(* and takes the node from it, whether or not used chunks have free nodes; *)
(* used chunks are searched, dealloc_chunk_ first, only when the unused    *)
(* list is empty.  No chunk moves from the used list to the unused list.   *)
(***************************************************************************)
NeedsChunk ==
    list.alloc_chunk_ = NULL \/ chunks[list.alloc_chunk_].capacity = 0

\* a being what allocate() leaves: the head of the unused list has moved
\* to the front of the used list and served the node
ServedFromUnusedHead(a) ==
    /\ a.report = "none"
    /\ a.list.alloc_chunk_ = list.unused_chunks_
    /\ a.list.dealloc_chunk_ = IF list.dealloc_chunk_ = NULL
                               THEN list.unused_chunks_
                               ELSE list.dealloc_chunk_
    /\ a.list.used_chunks_ = list.unused_chunks_
    /\ list.used_chunks_ # NULL =>
           a.chunks[list.unused_chunks_].next = list.used_chunks_
    /\ Members(a.chunks, a.list.used_chunks_)
           = UsedChunks \cup {list.unused_chunks_}
    /\ Members(a.chunks, a.list.unused_chunks_)
           = UnusedChunks \ {list.unused_chunks_}
    /\ from_chunk(a.chunks, list.unused_chunks_, node_fence_size(list),
                  debug_fill_free(a.ret, node_size(list), alignment(list)))

\* a being what allocate() leaves: a used chunk served the node,
\* dealloc_chunk_ if it has a free node, and no chunk moved
ServedFromUsed(a) ==
    /\ a.list.used_chunks_ = list.used_chunks_
    /\ a.list.unused_chunks_ = list.unused_chunks_
    /\ a.list.dealloc_chunk_ = list.dealloc_chunk_
    /\ a.report = "none" =>
           /\ a.list.alloc_chunk_ \in UsedChunks
           /\ chunks[a.list.alloc_chunk_].capacity > 0
           /\ chunks[list.dealloc_chunk_].capacity > 0 =>
                  a.list.alloc_chunk_ = list.dealloc_chunk_
    /\ a.report # "none" => \A c \in UsedChunks : chunks[c].capacity = 0

SelectionOrder(a) ==
    /\ (NeedsChunk /\ list.unused_chunks_ # NULL) => ServedFromUnusedHead(a)
    /\ (NeedsChunk /\ list.unused_chunks_ = NULL /\ list.used_chunks_ # NULL)
           => ServedFromUsed(a)
    /\ ~NeedsChunk => /\ a.report = "none"
                      /\ a.list.alloc_chunk_ = list.alloc_chunk_
                      /\ a.list.used_chunks_ = list.used_chunks_
                      /\ a.list.unused_chunks_ = list.unused_chunks_

C20_SelectionOrder ==
    /\ [](Returned => SelectionOrder(allocate(list, chunks, mem)))
    /\ [][Returned' => /\ UsedChunks \subseteq UsedChunks'
                       /\ UnusedChunks' \cap UsedChunks = {}]_vars

\* allocate() is about to take a chunk from the unused list while
\* dealloc_chunk_, another chunk of the used list, has a free node
C20_Witness ==
    /\ Returned
    /\ Cardinality(outstanding) < MaxOutstanding
    /\ list.alloc_chunk_ # NULL
    /\ NeedsChunk
    /\ list.unused_chunks_ # NULL
    /\ chunks[list.dealloc_chunk_].capacity > 0
    /\ allocate(list, chunks, mem).list.alloc_chunk_ = list.unused_chunks_

(***************************************************************************)
(* C21: while a locked_allocator proxy returned by lock() is alive, the    *)
(* adapter's mutex is held by it: the thread that has the proxy holds the  *)
(* mutex and no other thread is inside, or past, the wrapped call of a     *)
(* synchronized member function.                                           *)
(***************************************************************************)
\* the threads that have a proxy
HasProxy == {t \in Threads : proxies[t] # <<>>}

\* the threads one of whose proxies owns the lock
OwnsLock == {t \in Threads : \E i \in 1..Len(proxies[t]) : proxies[t][i].lock_}

\* the threads waiting for the mutex, in an entry point or in lock()
Waiting == {t \in Threads : pc[t].at \in {"lock", "construct"}}

C21_ProxyHoldsMutex ==
    \A t \in HasProxy :
        /\ mutex_ = t
        /\ Guarded \subseteq {t}

(***************************************************************************)
(* C21 as it holds: for a stateful allocator and a real mutex, while a     *)
(* proxy that owns the lock is alive (the one lock() returned or the one   *)
(* it was moved into), its thread holds the mutex, no other thread is      *)
(* inside or past the wrapped call of a synchronized member function and   *)
(* no other proxy owns the lock; the destruction of that proxy releases    *)
(* the mutex, and a waiting thread can then lock it.                       *)
(***************************************************************************)
OwnerHoldsMutex ==
    \A t \in OwnsLock :
        /\ mutex_ = t
        /\ Guarded = {}
        /\ OwnsLock = {t}
        /\ Cardinality({i \in 1..Len(proxies[t]) : proxies[t][i].lock_}) = 1

\* the step that destroys the owning proxy of t
OwnerDestroyed(t) == t \in OwnsLock /\ t \notin OwnsLock'

DestructionReleases ==
    \A t \in Threads :
        OwnerDestroyed(t) =>
            /\ mutex_' = 0
            /\ \A u \in Waiting' : lock_returns(is_stateful, mutex_')

C21_OwnerHoldsMutex ==
    /\ [](is_stateful => OwnerHoldsMutex)
    /\ [][is_stateful => DestructionReleases]_vars

\* a proxy was moved and the proxy it was moved into owns the lock, while
\* another thread waits in allocate_node
C21_Witness ==
    /\ is_stateful
    /\ \E t, u \in Threads :
          /\ Len(proxies[t]) = 2
          /\ ~proxies[t][1].lock_
          /\ proxies[t][2].lock_
          /\ mutex_ = t
          /\ pc[u] = [fn |-> "allocate_node", at |-> "lock"]

(***************************************************************************)
(* C22: new_allocator keeps its fence layout consistent: allocate_node     *)
(* returns base + debug_fence_size, base being a block of size +           *)
(* 2 * debug_fence_size bytes from operator new, with the leading fence,   *)
(* the node and the trailing fence inside that block; deallocate_node      *)
(* writes only the size bytes of the node and hands operator delete that   *)
(* base address, node - debug_fence_size.                                  *)
(***************************************************************************)
AllocateLayout ==
    /\ last.n = last.arg + 2 * debug_fence_size
    /\ last.ret = last.base + debug_fence_size
    /\ last.ret + last.arg + debug_fence_size <= last.base + last.n
    /\ last.written \subseteq last.base..(last.base + last.n - 1)
    /\ last.base \in DOMAIN heap
    /\ heap[last.base] = last.n
    /\ report = "none"

DeallocateLayout ==
    /\ last.written = last.node..(last.node + last.arg - 1)
    /\ last.base = last.node - debug_fence_size
    /\ last.n = last.arg + 2 * debug_fence_size
    /\ last.base \notin DOMAIN heap
    /\ report = "none"

C22_FenceLayout ==
    /\ last.op = "allocate_node" => AllocateLayout
    /\ last.op = "deallocate_node" => DeallocateLayout

\* the same for the sizes whose block size does not wrap
C22_LayoutUnwrapped ==
    last.arg + 2 * debug_fence_size <= SizeMax => C22_FenceLayout

====
